---- MODULE Spec2Model ----
(***************************************************************************)
(* Model of gremlin961/video_analysis_agent.                               *)
(*                                                                         *)
(*   main.py                       the two HTTP handlers (gcs_trigger,     *)
(*                                 process_asset) and the process-wide     *)
(*                                 session service, artifact service and   *)
(*                                 queue client they share                 *)
(*   video_analysis_agent/agent.py the tool add_artifact_from_gcs          *)
(*                                                                         *)
(* Names, keys and messages that the code only copies are TLA+ strings.    *)
(* A text that the code formats (f"...{x}") is the tuple of its pieces, a  *)
(* literal text the tuple of one piece; a string that the code slices or   *)
(* splits (the URI) is a tuple of one-character strings.                   *)
(***************************************************************************)
EXTENDS Integers, Sequences, FiniteSets, TLC

VARIABLES
    tasks,          \* tasks the queue holds, in creation order (Cloud Tasks)
    acked,          \* indices of tasks whose delivery was answered 2xx
    trig_count,     \* number of /gcs-trigger requests handled so far
    trigger_resp,   \* outcome of the latest /gcs-trigger request
    inv,            \* the /process-asset invocations, by slot
    worker_resp,    \* outcome of the latest /process-asset request to return
    sessions,       \* session_service: the sessions it holds
    issued,         \* values uuid.uuid4() has returned so far
    artifacts,      \* artifact_service: (session key, filename) -> versions
    tool_call,      \* outcome of the latest add_artifact_from_gcs call
    listing,        \* outcome of the latest list_artifacts call
    saved_in        \* <<session id, filename>> of every save a tool call made

vars == <<tasks, acked, trig_count, trigger_resp, inv, worker_resp, sessions,
          issued, artifacts, tool_call, listing, saved_in>>

tool_vars == <<artifacts, tool_call, listing, saved_in>>

http_vars == <<tasks, acked, trig_count, trigger_resp, inv, worker_resp,
               sessions, issued>>

----------------------------------------------------------------------------
(* Bounds *)

MaxTriggers == 1
MaxInvocations == 2
MaxEvents == 2
MaxSaves == 2

----------------------------------------------------------------------------
(* Values *)

\* Python's None, where the other values are strings.
None == "None"

\* Python's None, where the other values are objects or lists.
Null == <<>>

Buckets == {"b1"}
Names == {"video.mp4", "doc.json"}

\* class GcsEvent(BaseModel): bucket: str; name: str
GcsEvent == [bucket : Buckets, name : Names]

\* Exceptions a downstream call can raise, by their str(e).
ExcTexts == {"boom"}
Exceptions == [msg : ExcTexts]

\* str(e)
ExcStr(e) == e.msg

SERVICE_URL == "https://svc"
SERVICE_EMAIL == "sa@svc"
APP_NAME == "video_analysis_agent"
USER_ID == "gcs_trigger_user"

\* event.model_dump_json(): the fields in declaration order.
ModelDumpJson(event) == << <<"bucket", event.bucket>>, <<"name", event.name>> >>

\* str.encode()
Encode(s) == [encoding |-> "utf-8", text |-> s]

\* FastAPI's parsing of a request body into a GcsEvent.
JsonField(json, key) == (CHOOSE kv \in {json[k] : k \in DOMAIN json} : kv[1] = key)[2]

ParseGcsEvent(body) ==
    [bucket |-> JsonField(body.text, "bucket"), name |-> JsonField(body.text, "name")]

----------------------------------------------------------------------------
(* POST /gcs-trigger *)

\* Response(status_code=204)
Response204 == [status |-> 204, body |-> <<>>]

\* HTTPException(status_code=500, detail=...)
HTTPException500(detail) == [status |-> 500, body |-> [detail |-> detail]]

\* The task dict with the bare service URL as its OIDC audience.
BuildTaskBareAudience(event) ==
    [http_method |-> "POST",
     url |-> <<SERVICE_URL, "/process-asset">>,
     oidc_token |-> [service_account_email |-> <<SERVICE_EMAIL>>,
                     audience |-> <<SERVICE_URL>>],
     headers |-> [content_type |-> "application/json"],
     body |-> Encode(ModelDumpJson(event)),
     dispatch_deadline |-> "1800s"]

\* The task dict gcs_trigger builds.
BuildTask(event) ==
    [http_method |-> "POST",
     url |-> <<SERVICE_URL, "/process-asset">>,
     oidc_token |-> [service_account_email |-> <<SERVICE_EMAIL>>,
                     audience |-> <<SERVICE_URL, "/process-asset">>],
     headers |-> [content_type |-> "application/json"],
     body |-> Encode(ModelDumpJson(event)),
     dispatch_deadline |-> "1800s"]

\* The places of the try block that can raise.
TriggerStages == {"build", "create_task"}

\* How the try block ends: create_task returns, or a statement before it
\* ("build") or create_task itself raises.
TriggerOutcomes ==
    {[raised |-> FALSE, stage |-> "create_task", exc |-> [msg |-> ""]]}
    \cup [raised : {TRUE}, stage : TriggerStages, exc : Exceptions]

\* The handler with its except clause answering 204 as well.
TriggerResponseSwallowing(o) == Response204

\* What the handler answers for one outcome of its try block.
TriggerResponse(o) ==
    IF o.raised
    THEN HTTPException500(<<"Failed to create task: ", ExcStr(o.exc)>>)
    ELSE Response204

\* The number of times one request calls tasks_client.create_task: the call
\* stands once in the try block, outside any loop, and is reached when no
\* statement before it raised.
CreateTaskCalls(o) == IF o.stage = "create_task" THEN 1 ELSE 0

NoTriggerResponse ==
    [event |-> Null, called |-> FALSE, calls |-> 0, submitted |-> Null,
     succeeded |-> FALSE, exc |-> None, response |-> Null]

\* The whole handler: it has no await, so it runs in one step. The queue
\* holds the task once create_task has returned.
gcs_trigger(event, o) ==
    /\ trig_count < MaxTriggers
    /\ trig_count' = trig_count + 1
    /\ tasks' = IF o.stage = "create_task" /\ ~o.raised
                THEN Append(tasks, BuildTask(event)) ELSE tasks
    /\ trigger_resp' = [event |-> event,
                        called |-> o.stage = "create_task",
                        calls |-> CreateTaskCalls(o),
                        submitted |-> IF o.stage = "create_task"
                                      THEN BuildTask(event) ELSE Null,
                        succeeded |-> o.stage = "create_task" /\ ~o.raised,
                        exc |-> IF o.raised THEN o.exc.msg ELSE None,
                        response |-> TriggerResponse(o)]
    /\ UNCHANGED <<acked, inv, worker_resp, sessions, issued, tool_vars>>

----------------------------------------------------------------------------
(* uuid, sessions *)

\* The space uuid.uuid4() draws from.
UUIDs == 1 .. MaxInvocations

\* uuid.uuid4(), by its contract: a value it has not returned before. The
\* code treats the value as opaque, so the draw is the least unused one: any
\* other unused value gives the same behaviour up to renaming.
uuid4(given) == {u \in UUIDs \ given : \A v \in UUIDs \ given : u <= v}

\* str(uuid)
UuidStr(u) == <<"uuid", u>>

\* A session identifier that does not come from the draw.
NewSessionIdStatic(u) == UuidStr(0)

\* session_id = str(uuid.uuid4()), for the value u that uuid4 returned.
NewSessionId(u) == UuidStr(u)

\* The key under which session_service and artifact_service file a session.
SessionKey(session_id) ==
    [app_name |-> APP_NAME, user_id |-> USER_ID, session_id |-> session_id]

----------------------------------------------------------------------------
(* The coordinator's event stream, as runner.run_async yields it *)

\* event.content: None, or a Content whose parts is a list of text parts.
Contents == {Null} \cup {[parts |-> p] : p \in {<<>>, << <<"ok">>, <<"more">> >>}}

\* event.actions: the EventActions every event carries, with its escalate flag.
Actions == [escalate : BOOLEAN]

ErrorMessages == {None, "", "quota"}

\* final is what event.is_final_response() answers for the event.
FinalEvents == [final : {TRUE}, content : Contents, actions : Actions,
                error_message : ErrorMessages]

NonFinalEvents == [final : {FALSE}, content : {Null, [parts |-> << <<"more">> >>]},
                   actions : {[escalate |-> FALSE]}, error_message : {None}]

Events == FinalEvents \cup NonFinalEvents

is_final_response(event) == event.final

\* Python truthiness of an optional string.
Truthy(v) == v # None /\ v # ""

\* event.content and event.content.parts
HasParts(event) == event.content # Null /\ event.content.parts # <<>>

\* event.actions and event.actions.escalate
Escalates(event) == event.actions # Null /\ event.actions.escalate

DefaultResponseText == <<"Agent did not produce a final response.">>

\* The body of `if event.is_final_response():` up to the break.
FinalResponseText(prev, event) ==
    IF HasParts(event)
    THEN event.content.parts[1]
    ELSE IF Escalates(event)
         THEN <<"Agent escalated: ",
                IF Truthy(event.error_message) THEN event.error_message
                ELSE "No specific message.">>
         ELSE prev

\* The loop without its break.
BreaksLoopNever(event) == FALSE

\* The loop leaves on the first final-response event.
BreaksLoop(event) == is_final_response(event)

\* The handler answering 500 when no final text was produced.
SuccessResponseOnlyWithFinalText(text) ==
    IF text = DefaultResponseText
    THEN HTTPException500(text)
    ELSE [status |-> 200, body |-> [status |-> "success", response |-> text]]

\* return {"status": "success", "response": final_response_text}
SuccessResponse(text) == [status |-> 200, body |-> [status |-> "success", response |-> text]]

----------------------------------------------------------------------------
(* POST /process-asset *)

Slots == 1 .. MaxInvocations

\* The handler's frame (pc, event_str, consumed, first_final,
\* final_response_text) lives while the request is in flight; what stays of a
\* request after its return is its record: task, session_id, created,
\* delegated, raised (an exception reached the except clause), the status it
\* answered, and how often it called session_service.create_session and
\* runner.run_async. first_final is <<k, event>> for the first final-response
\* event the iterator yielded, as its k-th event.
IdleInvocation ==
    [pc |-> "idle", task |-> 0, event_str |-> Null, session_id |-> Null,
     created |-> FALSE, delegated |-> FALSE, consumed |-> 0,
     first_final |-> Null, final_response_text |-> Null, raised |-> FALSE,
     status |-> 0, create_session_calls |-> 0, run_async_calls |-> 0]

NoWorkerResponse ==
    [slot |-> 0, task |-> 0, session_id |-> Null,
     created |-> FALSE, consumed |-> 0, first_final |-> Null,
     raised |-> None, response |-> Null]

\* The handler goes on to the place pc, making the call that it awaits
\* there.
Enter(frame, pc) ==
    [frame EXCEPT !.pc = pc,
                  !.create_session_calls = @ + (IF pc = "create_session" THEN 1 ELSE 0),
                  !.run_async_calls = @ + (IF pc = "run_async" THEN 1 ELSE 0)]

\* Slots are taken in order.
NextSlot(i) == inv[i].pc = "idle" /\ \A j \in Slots : j < i => inv[j].pc # "idle"

\* The queue delivers task t (again, as long as no delivery of it was
\* answered 2xx); the handler runs up to its first await.
process_asset_begin(i, t, u) ==
    /\ NextSlot(i)
    /\ t \in DOMAIN tasks /\ t \notin acked
    /\ u \in uuid4(issued)
    /\ issued' = issued \cup {u}
    /\ LET event == ParseGcsEvent(tasks[t].body)
       IN inv' = [inv EXCEPT ![i] =
                    Enter([@ EXCEPT !.task = t,
                                    !.event_str = ModelDumpJson(event),
                                    !.session_id = NewSessionId(u)],
                          "create_session")]
    /\ UNCHANGED <<tasks, acked, trig_count, trigger_resp, worker_resp, sessions,
                   tool_vars>>

\* The answer reaches the queue: a 2xx completes the task.
Answered(t, response) == IF response.status = 200 THEN acked \cup {t} ELSE acked

\* A session service that keeps one session per user, replacing the last.
CreateSessionPerUser(held, key) ==
    {k \in held : k.user_id # key.user_id} \cup {key}

\* session_service.create_session stores the session under its key.
CreateSession(held, key) == held \cup {key}

\* The handler deleting its session before it returns.
SessionsAfterReturnDeleting(held, key) == held \ {key}

\* The handler returns without a call to session_service: the session stays.
SessionsAfterReturn(held, key) == held

\* The except clause calling the failed statement again.
AfterExceptRetrying(pc) == pc

\* The except clause going on with the statements after the try block's
\* first call.
AfterExceptContinuing(pc) == "run_async"

\* raise HTTPException(...) in the except clause leaves the handler from
\* whatever place pc the exception came.
AfterExcept(pc) == "done"

\* The handler of slot i answers and its frame is gone.
Return(i, consumed, first_final, raised, response) ==
    /\ inv' = [inv EXCEPT ![i] =
                 Enter([@ EXCEPT !.status = response.status,
                                 !.raised = raised # None,
                                 !.delegated = @ \/ inv[i].pc = "run_async",
                                 !.event_str = Null, !.consumed = 0,
                                 !.first_final = Null, !.final_response_text = Null],
                       IF raised # None THEN AfterExcept(inv[i].pc) ELSE "done")]
    /\ worker_resp' = [slot |-> i, task |-> inv[i].task,
                       session_id |-> inv[i].session_id,
                       created |-> inv[i].created,
                       consumed |-> consumed, first_final |-> first_final,
                       raised |-> raised, response |-> response]
    /\ acked' = Answered(inv[i].task, response)
    /\ sessions' = SessionsAfterReturn(sessions, SessionKey(inv[i].session_id))

\* The except clause answering with a fixed detail.
ExceptResponseFixedDetail(e) == HTTPException500("Internal Server Error")

\* except Exception as e: raise HTTPException(status_code=500, detail=str(e))
ExceptResponse(e) == HTTPException500(ExcStr(e))

\* await session_service.create_session(...) returns.
create_session_ok(i) ==
    /\ inv[i].pc = "create_session"
    /\ sessions' = CreateSession(sessions, SessionKey(inv[i].session_id))
    /\ inv' = [inv EXCEPT ![i] =
                 Enter([@ EXCEPT !.created = TRUE,
                                 !.final_response_text = DefaultResponseText],
                       "run_async")]
    /\ UNCHANGED <<tasks, acked, trig_count, trigger_resp, worker_resp, issued,
                   tool_vars>>

\* await session_service.create_session(...) raises.
create_session_raises(i, e) ==
    /\ inv[i].pc = "create_session"
    /\ Return(i, 0, Null, e.msg, ExceptResponse(e))
    /\ UNCHANGED <<tasks, trig_count, trigger_resp, issued, tool_vars>>

\* One turn of `async for event in runner.run_async(...)` in which the
\* iterator yields an event. On leaving the loop the handler returns without
\* another await.
run_async_event(i, event) ==
    /\ inv[i].pc = "run_async"
    /\ inv[i].consumed < MaxEvents
    /\ LET text == IF is_final_response(event)
                   THEN FinalResponseText(inv[i].final_response_text, event)
                   ELSE inv[i].final_response_text
           first == IF inv[i].first_final = Null /\ event.final
                    THEN <<inv[i].consumed + 1, event>> ELSE inv[i].first_final
       IN IF BreaksLoop(event)
          THEN Return(i, inv[i].consumed + 1, first, None, SuccessResponse(text))
          ELSE /\ inv' = [inv EXCEPT ![i] =
                            [@ EXCEPT !.delegated = TRUE,
                                      !.consumed = @ + 1,
                                      !.first_final = first,
                                      !.final_response_text = text]]
               /\ UNCHANGED <<acked, worker_resp, sessions>>
    /\ UNCHANGED <<tasks, trig_count, trigger_resp, issued, tool_vars>>

\* The iterator ends without a final-response event having left the loop.
run_async_stop(i) ==
    /\ inv[i].pc = "run_async"
    /\ Return(i, inv[i].consumed, inv[i].first_final, None,
              SuccessResponse(inv[i].final_response_text))
    /\ UNCHANGED <<tasks, trig_count, trigger_resp, issued, tool_vars>>

\* The iterator raises.
run_async_raises(i, e) ==
    /\ inv[i].pc = "run_async"
    /\ Return(i, inv[i].consumed, inv[i].first_final, e.msg, ExceptResponse(e))
    /\ UNCHANGED <<tasks, trig_count, trigger_resp, issued, tool_vars>>

----------------------------------------------------------------------------
(* Character strings *)

\* Segments of a URI after its scheme part.
MaxSegs == 3

IndexOf(s, c) ==
    IF \E k \in 1 .. Len(s) : s[k] = c
    THEN CHOOSE k \in 1 .. Len(s) : s[k] = c /\ \A j \in 1 .. (k - 1) : s[j] # c
    ELSE 0

LastIndexOf(s, c) ==
    IF \E k \in 1 .. Len(s) : s[k] = c
    THEN CHOOSE k \in 1 .. Len(s) : s[k] = c /\ \A j \in (k + 1) .. Len(s) : s[j] # c
    ELSE 0

\* s[n:]
Drop(s, n) == SubSeq(s, n + 1, Len(s))

\* s[:n]
Take(s, n) == SubSeq(s, 1, n)

\* s.split(c, 1): the list of one or two pieces.
Split1(s, c) ==
    LET k == IndexOf(s, c)
    IN IF k = 0 THEN <<s>> ELSE <<Take(s, k - 1), Drop(s, k)>>

\* s.rsplit(c, 1)
RSplit1(s, c) ==
    LET k == LastIndexOf(s, c)
    IN IF k = 0 THEN <<s>> ELSE <<Take(s, k - 1), Drop(s, k)>>

\* str.lower(), on the letters the inputs use.
LowerChar(c) ==
    CASE c = "J" -> "j" [] c = "S" -> "s" [] c = "O" -> "o" [] c = "N" -> "n"
      [] OTHER -> c

Lower(s) == [k \in 1 .. Len(s) |-> LowerChar(s[k])]

\* str.isalnum() of one character.
IsAlnum(c) == c \notin {"/", ":", "."}

GS_PREFIX == <<"g", "s", ":", "/", "/">>

\* The URIs the tool is called with: a scheme part followed by one to MaxSegs
\* segments joined by "/".
Schemes == {GS_PREFIX, <<"s", "3", ":", "/", "/">>, <<"g", "s", ":", "/">>, <<>>}

Segments == {<<"b">>, <<"d", "i", "r">>, <<"n", "a", "m", "e", ".", "p", "d", "f">>, <<"a", ".", "j", "s", "o", "n">>, <<".", "j", "s", "o", "n">>, <<"a", ".", "J", "S", "O", "N">>, <<"a", ".", "j", "s", "o", "n", ".", "g", "z">>, <<>>}

RECURSIVE Join(_)
Join(segs) ==
    IF Len(segs) = 1 THEN segs[1] ELSE segs[1] \o <<"/">> \o Join(Tail(segs))

SegLists == UNION {[1 .. n -> Segments] : n \in 1 .. MaxSegs}

URIs == {sch \o Join(segs) : sch \in Schemes, segs \in SegLists}

----------------------------------------------------------------------------
(* mimetypes.guess_type *)

\* urllib.parse._splittype: <<scheme, rest>>, scheme Null when there is none.
SplitType(url) ==
    LET k == IndexOf(url, ":")
    IN IF k > 1 /\ \A j \in 1 .. (k - 1) : url[j] # "/"
       THEN <<Lower(Take(url, k - 1)), Drop(url, k)>>
       ELSE <<Null, url>>

\* posixpath.splitext: <<root, ext>>; leading dots of the last component are
\* not an extension.
SplitExt(p) ==
    LET sepIndex == LastIndexOf(p, "/")
        dotIndex == LastIndexOf(p, ".")
    IN IF dotIndex > sepIndex
          /\ \E f \in (sepIndex + 1) .. (dotIndex - 1) : p[f] # "."
       THEN <<Take(p, dotIndex - 1), Drop(p, dotIndex - 1)>>
       ELSE <<p, <<>> >>

\* mimetypes.encodings_map, the entry the inputs use.
EncodingsMap(ext) == IF ext = <<".", "g", "z">> THEN "gzip" ELSE None

\* mimetypes.types_map, the entries the inputs use.
TypesMap(ext) ==
    CASE ext = <<".", "j", "s", "o", "n">> -> "application/json"
      [] ext = <<".", "p", "d", "f">> -> "application/pdf"
      [] ext = <<".", "m", "p", "4">> -> "video/mp4"
      [] OTHER -> None

\* mimetypes.guess_type(url)[0], strict. The suffix_map step (".tgz" and the
\* like) and the "data:" scheme are left out: no input has them.
GuessType(url) ==
    LET rest == SplitType(url)[2]
        be == SplitExt(rest)
        ext == IF EncodingsMap(be[2]) # None THEN SplitExt(be[1])[2] ELSE be[2]
    IN IF TypesMap(ext) # None THEN TypesMap(ext) ELSE TypesMap(Lower(ext))

----------------------------------------------------------------------------
(* add_artifact_from_gcs *)

\* path_part = uri[len("gs://"):]
PathPart(uri) == Drop(uri, Len(GS_PREFIX))

\* The split taken at the last "/" instead of the first.
BucketAndBlobAtLast(uri) == RSplit1(PathPart(uri), "/")

\* bucket_name, blob_name = path_part.split('/', 1): the list unpacked.
BucketAndBlob(uri) == Split1(PathPart(uri), "/")

\* Unpacking a list of one piece into two names raises ValueError.
UnpackRaises(uri) == Len(BucketAndBlob(uri)) # 2

\* storage_client.bucket(name): google-cloud-storage rejects a name that is
\* empty or does not start and end with a letter or digit.
BucketNameRaises(name) ==
    name = <<>> \/ ~IsAlnum(name[1]) \/ ~IsAlnum(name[Len(name)])

\* Cloud Storage holds no object with an empty name: its download raises.
NoSuchBlob(blob_name) == blob_name = <<>>

\* filename = uri.rsplit('/', 1)[-1]
Filename(uri) == LET parts == RSplit1(uri, "/") IN parts[Len(parts)]

\* The tool without its override of the JSON type.
StoredMimeTypeAsGuessed(mime_type) == mime_type

\* if mime_type == "application/json": mime_type = "text/plain"
StoredMimeType(mime_type) ==
    IF mime_type = "application/json" THEN "text/plain" ELSE mime_type

\* blob.download_as_bytes(): the content of the object at that place.
DownloadAsBytes(bucket_name, blob_name) == <<"bytes", bucket_name, blob_name>>

\* InMemoryArtifactService: a filename that starts with "user:" is filed under
\* the user, any other under the session.
HasUserNamespace(filename) == Len(filename) >= 5 /\ Take(filename, 5) = <<"u", "s", "e", "r", ":">>

ArtifactPath(key, filename) ==
    IF HasUserNamespace(filename)
    THEN <<key.app_name, key.user_id, <<"user">>, filename>>
    ELSE <<key.app_name, key.user_id, key.session_id, filename>>

Versions(store, path) == IF path \in DOMAIN store THEN store[path] ELSE <<>>

\* artifact_service.save_artifact: append a version under the path.
SaveArtifact(store, path, part) ==
    (path :> Append(Versions(store, path), part)) @@ store

\* The calls of the tool that reach outside and may fail there.
ToolFailures == {"none", "client", "download", "save"}

\* state: "none", then "requested" once the coordinator has chosen to call
\* the tool with uri for the session of slot, then "returned".
\* download_called: blob.download_as_bytes() was called; downloaded: it
\* returned the bytes; saved: save_artifact returned a version.
NoToolCall ==
    [state |-> "none", slot |-> 0,
     uri |-> <<>>, session_id |-> Null, raised |-> None, bucket_name |-> Null,
     blob_name |-> Null, download_called |-> FALSE, downloaded |-> FALSE,
     saved |-> FALSE,
     filename |-> Null, guessed |-> None, mime_type |-> None, version |-> -1]

\* The call of the tool that the coordinator of invocation i requested. The
\* only await is the final save, so the call runs in one step.
add_artifact_from_gcs(i, fail) ==
    /\ tool_call.state = "requested" /\ tool_call.slot = i
    /\ inv[i].pc = "run_async"
    /\ LET uri == tool_call.uri
           key == SessionKey(inv[i].session_id)
           call == [tool_call EXCEPT !.state = "returned",
                                     !.session_id = inv[i].session_id]
       IN IF UnpackRaises(uri)
          THEN /\ tool_call' = [call EXCEPT !.raised = "ValueError"]
               /\ UNCHANGED <<artifacts, saved_in>>
          ELSE
          LET bucket_name == BucketAndBlob(uri)[1]
              blob_name == BucketAndBlob(uri)[2]
              located == [call EXCEPT !.bucket_name = bucket_name, !.blob_name = blob_name]
          IN IF fail = "client"
             THEN /\ tool_call' = [located EXCEPT !.raised = "ClientError"]
                  /\ UNCHANGED <<artifacts, saved_in>>
             ELSE IF BucketNameRaises(bucket_name)
             THEN /\ tool_call' = [located EXCEPT !.raised = "BucketNameError"]
                  /\ UNCHANGED <<artifacts, saved_in>>
             ELSE IF fail = "download" \/ NoSuchBlob(blob_name)
             THEN /\ tool_call' = [located EXCEPT !.download_called = TRUE,
                                                  !.raised = "DownloadError"]
                  /\ UNCHANGED <<artifacts, saved_in>>
             ELSE
             LET file_bytes == DownloadAsBytes(bucket_name, blob_name)
                 filename == Filename(uri)
                 guessed == GuessType(filename)
                 mime_type == StoredMimeType(guessed)
                 part == [data |-> file_bytes, mime_type |-> mime_type]
                 path == ArtifactPath(key, filename)
                 built == [located EXCEPT !.download_called = TRUE,
                                          !.downloaded = TRUE, !.filename = filename,
                                          !.guessed = guessed, !.mime_type = mime_type]
             IN IF fail = "save"
                THEN /\ tool_call' = [built EXCEPT !.raised = "SaveError"]
                     /\ UNCHANGED <<artifacts, saved_in>>
                ELSE /\ tool_call' = [built EXCEPT !.saved = TRUE,
                                        !.version = Len(Versions(artifacts, path))]
                     /\ artifacts' = SaveArtifact(artifacts, path, part)
                     /\ saved_in' = saved_in \cup {<<inv[i].session_id, filename>>}
    /\ UNCHANGED <<http_vars, listing>>

----------------------------------------------------------------------------
(* list_artifacts *)

\* The characters of the inputs, in code point order.
CharOrder ==
    <<".", "/", "3", ":", "J", "N", "O", "S", "a", "b", "d", "e", "f", "g",
      "i", "j", "m", "n", "o", "p", "r", "s", "u", "z">>

Ord(c) == CHOOSE k \in 1 .. Len(CharOrder) : CharOrder[k] = c

\* str.__lt__
RECURSIVE StrLess(_, _)
StrLess(s, t) ==
    IF s = <<>> THEN t # <<>>
    ELSE IF t = <<>> THEN FALSE
    ELSE IF s[1] = t[1] THEN StrLess(Tail(s), Tail(t))
    ELSE Ord(s[1]) < Ord(t[1])

\* sorted(filenames)
Sorted(names) ==
    CHOOSE seq \in [1 .. Cardinality(names) -> names] :
        /\ {seq[k] : k \in DOMAIN seq} = names
        /\ \A j, k \in DOMAIN seq : j < k => StrLess(seq[j], seq[k])

\* InMemoryArtifactService.list_artifact_keys: the filenames filed under the
\* session and those filed under the user, sorted.
ListArtifactKeys(store, key) ==
    Sorted({p[4] : p \in {q \in DOMAIN store :
                            /\ q[1] = key.app_name /\ q[2] = key.user_id
                            /\ q[3] \in {key.session_id, <<"user">>}}})

\* "\n".join(lines); the line break is a piece of its own.
RECURSIVE JoinLines(_)
JoinLines(lines) ==
    IF lines = <<>> THEN <<>>
    ELSE IF Len(lines) = 1 THEN lines[1]
    ELSE lines[1] \o <<"\n">> \o JoinLines(Tail(lines))

\* f"- {fname}"
FileLine(fname) == <<"- ">> \o fname

\* The listing without the sentence that introduces it.
ListingTextBare(available_files) ==
    JoinLines([k \in DOMAIN available_files |-> FileLine(available_files[k])])

\* f"Here are your available Python artifacts:\n{file_list_str}"
ListingText(available_files) ==
    <<"Here are your available Python artifacts:", "\n">>
        \o JoinLines([k \in DOMAIN available_files |-> FileLine(available_files[k])])

NoArtifactsText == <<"You have no saved artifacts.">>

\* if not available_files: ... else: ...
ListArtifactsOk(available_files) ==
    IF available_files = <<>> THEN NoArtifactsText ELSE ListingText(available_files)

\* How tool_context.list_artifacts() ends: it returns the list, raises
\* ValueError (no artifact service) or raises another exception.
ListOutcomes == {"ok", "ValueError", "Exception"}

\* The tool without its except clauses: the exception leaves the tool.
ListArtifactsExceptNone(exc) == [raised |-> exc, result |-> Null]

\* except ValueError ... / except Exception ...: each returns its sentence.
ListArtifactsExcept(exc) ==
    [raised |-> None,
     result |-> IF exc = "ValueError"
                THEN <<"Error: Could not list Python artifacts.">>
                ELSE <<"Error: An unexpected error occurred while listing Python artifacts.">>]

\* available: the list tool_context.list_artifacts() returned; raised: the
\* exception that left the tool; result: the text the tool returned.
NoListing ==
    [state |-> "none", slot |-> 0, session_id |-> Null, outcome |-> None,
     available |-> Null, raised |-> None, result |-> Null]

\* The coordinator of invocation i, or the agent it runs as a tool, calls
\* list_artifacts. The library call reads the store without yielding.
list_artifacts(i, outcome) ==
    /\ inv[i].pc = "run_async"
    /\ LET key == SessionKey(inv[i].session_id)
           call == [NoListing EXCEPT !.state = "returned", !.slot = i,
                                     !.session_id = inv[i].session_id,
                                     !.outcome = outcome]
       IN IF outcome = "ok"
          THEN LET available_files == ListArtifactKeys(artifacts, key)
               IN listing' = [call EXCEPT !.available = available_files,
                                          !.result = ListArtifactsOk(available_files)]
          ELSE listing' = [call EXCEPT !.raised = ListArtifactsExcept(outcome).raised,
                                       !.result = ListArtifactsExcept(outcome).result]
    /\ UNCHANGED <<http_vars, artifacts, tool_call, saved_in>>

\* The URIs the coordinator builds from upload events, "gs://<bucket>/<name>".
ToolURIs ==
    {GS_PREFIX \o Join(segs) : segs \in
        {<<<<"b">>, <<"n", "a", "m", "e", ".", "p", "d", "f">>>>,
         <<<<"b">>, <<"d", "i", "r">>, <<"n", "a", "m", "e", ".", "p", "d", "f">>>>,
         <<<<"b">>, <<"a", ".", "j", "s", "o", "n">>>>,
         <<<<"b">>, <<"u", "s", "e", "r", ":", "n", "a", "m", "e", ".", "p", "d", "f">>>>}}

\* The number of versions the store holds under the paths.
RECURSIVE TotalVersions(_, _)
TotalVersions(store, paths) ==
    IF paths = {} THEN 0
    ELSE LET p == CHOOSE q \in paths : TRUE
         IN Len(store[p]) + TotalVersions(store, paths \ {p})

\* The coordinator of invocation i decides to call add_artifact_from_gcs with
\* uri; one tool call runs at a time on the event loop.
root_agent_add_artifact(i, uri) ==
    /\ inv[i].pc = "run_async"
    /\ tool_call.state # "requested"
    /\ TotalVersions(artifacts, DOMAIN artifacts) < MaxSaves
    /\ tool_call' = [NoToolCall EXCEPT !.state = "requested", !.slot = i, !.uri = uri]
    /\ UNCHANGED <<http_vars, artifacts, listing, saved_in>>

----------------------------------------------------------------------------
(* Specifications *)

Init ==
    /\ tasks = <<>>
    /\ acked = {}
    /\ trig_count = 0
    /\ trigger_resp = NoTriggerResponse
    /\ inv = [i \in Slots |-> IdleInvocation]
    /\ worker_resp = NoWorkerResponse
    /\ sessions = {}
    /\ issued = {}
    /\ artifacts = <<>>
    /\ tool_call = NoToolCall
    /\ listing = NoListing
    /\ saved_in = {}

Next ==
    \/ \E event \in GcsEvent, o \in TriggerOutcomes : gcs_trigger(event, o)
    \/ \E i \in Slots, t \in 1 .. MaxTriggers, u \in UUIDs : process_asset_begin(i, t, u)
    \/ \E i \in Slots : create_session_ok(i)
    \/ \E i \in Slots, e \in Exceptions : create_session_raises(i, e)
    \/ \E i \in Slots, event \in Events : run_async_event(i, event)
    \/ \E i \in Slots : run_async_stop(i)
    \/ \E i \in Slots, e \in Exceptions : run_async_raises(i, e)

Spec == Init /\ [][Next]_vars

\* The tool on its own: one invocation is in its coordinator run, and the
\* coordinator has chosen to call the tool with some URI.
AdapterInvocation ==
    [IdleInvocation EXCEPT !.pc = "run_async", !.task = 1,
        !.event_str = ModelDumpJson([bucket |-> "b1", name |-> "video.mp4"]),
        !.session_id = NewSessionId(1), !.created = TRUE,
        !.create_session_calls = 1, !.run_async_calls = 1,
        !.final_response_text = DefaultResponseText]

InitAdapter ==
    /\ tasks = <<BuildTask([bucket |-> "b1", name |-> "video.mp4"])>>
    /\ acked = {}
    /\ trig_count = 1
    /\ trigger_resp = [event |-> [bucket |-> "b1", name |-> "video.mp4"],
                       called |-> TRUE, calls |-> 1,
                       submitted |-> BuildTask([bucket |-> "b1", name |-> "video.mp4"]),
                       succeeded |-> TRUE, exc |-> None, response |-> Response204]
    /\ inv = [i \in Slots |-> IF i = 1 THEN AdapterInvocation ELSE IdleInvocation]
    /\ worker_resp = NoWorkerResponse
    /\ sessions = {SessionKey(NewSessionId(1))}
    /\ issued = {1}
    /\ artifacts = <<>>
    /\ listing = NoListing
    /\ saved_in = {}
    /\ \E uri \in URIs :
         tool_call = [NoToolCall EXCEPT !.state = "requested", !.slot = 1, !.uri = uri]

NextAdapter ==
    \E i \in Slots, fail \in ToolFailures : add_artifact_from_gcs(i, fail)

SpecAdapter == InitAdapter /\ [][NextAdapter]_vars

\* The tools in two requests at once: both invocations are in their
\* coordinator runs, each with its own session, and their tool calls
\* interleave.
ToolsInvocation(u) ==
    [AdapterInvocation EXCEPT !.session_id = NewSessionId(u)]

InitTools ==
    /\ tasks = <<BuildTask([bucket |-> "b1", name |-> "video.mp4"])>>
    /\ acked = {}
    /\ trig_count = 1
    /\ trigger_resp = [event |-> [bucket |-> "b1", name |-> "video.mp4"],
                       called |-> TRUE, calls |-> 1,
                       submitted |-> BuildTask([bucket |-> "b1", name |-> "video.mp4"]),
                       succeeded |-> TRUE, exc |-> None, response |-> Response204]
    /\ inv = [i \in Slots |-> IF i \in {1, 2} THEN ToolsInvocation(i) ELSE IdleInvocation]
    /\ worker_resp = NoWorkerResponse
    /\ sessions = {SessionKey(NewSessionId(1)), SessionKey(NewSessionId(2))}
    /\ issued = {1, 2}
    /\ artifacts = <<>>
    /\ tool_call = NoToolCall
    /\ listing = NoListing
    /\ saved_in = {}

NextTools ==
    \/ \E i \in Slots, uri \in ToolURIs : root_agent_add_artifact(i, uri)
    \/ \E i \in Slots, fail \in ToolFailures : add_artifact_from_gcs(i, fail)
    \/ \E i \in Slots, outcome \in ListOutcomes : list_artifacts(i, outcome)

SpecTools == InitTools /\ [][NextTools]_vars

----------------------------------------------------------------------------
(* Claims about the HTTP front door, checked under Spec *)

\* s occurs among the pieces of the formatted text.
ContainsPiece(text, piece) == \E k \in DOMAIN text : text[k] = piece

\* C1: the enqueue handler answers 204 with an empty body exactly when
\* create_task returned, and when building or submitting the task raised it
\* answers 500 with a detail that contains the exception's text.
C1_EnqueueStatus ==
    trig_count > 0 =>
        /\ (trigger_resp.response.status = 204 /\ trigger_resp.response.body = <<>>)
              <=> trigger_resp.succeeded
        /\ trigger_resp.exc # None =>
              /\ trigger_resp.response.status = 500
              /\ ContainsPiece(trigger_resp.response.body.detail, trigger_resp.exc)

\* create_task itself raised and the request was answered.
C1_Witness ==
    /\ trigger_resp.called /\ trigger_resp.exc = "boom"
    /\ trigger_resp.response.status = 500

\* What C2 asks of a task, for the event it was built from.
WellFormedTask(task, event) ==
    /\ task.http_method = "POST"
    /\ task.url = <<SERVICE_URL, "/process-asset">>
    /\ task.oidc_token.audience = task.url
    /\ task.body.text = << <<"bucket", event.bucket>>, <<"name", event.name>> >>
    /\ ParseGcsEvent(task.body) = event
    /\ task.dispatch_deadline = "1800s"

\* C2: every task submitted to the queue is a POST to
\* <service_url>/process-asset with that URL as OIDC audience, the inbound
\* event's JSON as body and a dispatch deadline of 1800 seconds.
C2_TaskDescriptor ==
    /\ trigger_resp.called => WellFormedTask(trigger_resp.submitted, trigger_resp.event)
    /\ \A t \in DOMAIN tasks : \E event \in GcsEvent : WellFormedTask(tasks[t], event)

\* A task for doc.json is in the queue and the request got its 204.
C2_Witness ==
    /\ trigger_resp.succeeded /\ trigger_resp.event.name = "doc.json"
    /\ Len(tasks) > 0

\* The text C3 names for a final-response event, Null where it names none.
ClaimedText(event) ==
    IF event.content # Null /\ Len(event.content.parts) > 0
    THEN event.content.parts[1]
    ELSE IF event.actions.escalate
         THEN <<"Agent escalated: ",
                IF event.error_message \in {None, ""} THEN "No specific message."
                ELSE event.error_message>>
         ELSE Null

\* C3: the worker stops at the first final-response event of the stream, and
\* its success body carries that event's first part's text or, when the event
\* has no parts but escalates, the synthesized escalation message; nothing
\* the stream holds after that event is consumed.
C3_FirstFinalDecides ==
    (worker_resp.slot # 0 /\ worker_resp.first_final # Null) =>
        LET at == worker_resp.first_final[1]
            event == worker_resp.first_final[2]
        IN /\ worker_resp.consumed = at
           /\ worker_resp.response.status = 200
           /\ worker_resp.response.body.status = "success"
           /\ ClaimedText(event) # Null =>
                 worker_resp.response.body.response = ClaimedText(event)

\* A final event without parts that escalates, after a non-final event.
C3_Witness ==
    /\ worker_resp.slot # 0 /\ worker_resp.first_final # Null
    /\ worker_resp.first_final[1] = 2
    /\ worker_resp.first_final[2].content = Null
    /\ worker_resp.first_final[2].actions.escalate
    /\ worker_resp.response.body.response = <<"Agent escalated: ", "quota">>

\* C4: when create_session or the coordinator run raised, the worker answers
\* 500 with the exception's message as detail, and that request has no
\* success answer.
C4_WorkerFailure ==
    /\ worker_resp.raised # None =>
          /\ worker_resp.response.status = 500
          /\ worker_resp.response.body = [detail |-> worker_resp.raised]
    /\ \A i \in Slots : inv[i].raised => inv[i].pc = "done" /\ inv[i].status = 500

\* The run raised after the handler had consumed an event.
C4_Witness ==
    /\ worker_resp.raised = "boom" /\ worker_resp.consumed > 0
    /\ worker_resp.created

\* C5: no two worker invocations use the same session identifier.
C5_DistinctSessionIds ==
    \A i, j \in Slots :
        (i # j /\ inv[i].pc # "idle" /\ inv[j].pc # "idle")
            => inv[i].session_id # inv[j].session_id

\* Two invocations are in their coordinator run at once.
C5_Witness ==
    \E i, j \in Slots : i # j /\ inv[i].pc = "run_async" /\ inv[j].pc = "run_async"

\* The invocations that created a session for task t.
SessionsCreatedFor(t) == {i \in Slots : inv[i].task = t /\ inv[i].created}

\* C6 as stated: every storage event that a worker invocation has processed
\* got exactly one session.
C6_Original ==
    \A t \in DOMAIN tasks :
        (\E i \in Slots : inv[i].task = t /\ inv[i].pc = "done")
            => Cardinality(SessionsCreatedFor(t)) = 1

\* C6 (amended): sessions go by invocation, not by event: an invocation holds
\* no session before create_session has returned and exactly one, its own,
\* afterwards, so the session service holds as many sessions as there are
\* invocations that got past create_session.
C6_OneSessionPerInvocation ==
    /\ \A i \in Slots :
          /\ inv[i].pc \in {"idle", "create_session"} => ~inv[i].created
          /\ inv[i].pc = "run_async" => inv[i].created
          /\ inv[i].created => SessionKey(inv[i].session_id) \in sessions
    /\ Cardinality(sessions) = Cardinality({i \in Slots : inv[i].created})

\* The queue delivered one task twice and each delivery created a session.
C6_Witness ==
    \E i, j \in Slots :
        /\ i # j /\ inv[i].task = inv[j].task
        /\ inv[i].created /\ inv[j].created
        /\ inv[i].pc = "done"

\* C7 as stated: once the worker has returned, the session it created is no
\* longer in the session service.
C7_Original ==
    \A i \in Slots :
        inv[i].pc = "done" => SessionKey(inv[i].session_id) \notin sessions

\* C7 (amended): the session created at the start of a worker invocation is
\* still in the session service after the handler has returned, with success
\* or with 500.
C7_SessionOutlivesRequest ==
    \A i \in Slots :
        (inv[i].pc = "done" /\ inv[i].created)
            => SessionKey(inv[i].session_id) \in sessions

\* One request returned 200 and another 500, both after creating a session.
C7_Witness ==
    \E i, j \in Slots :
        /\ inv[i].pc = "done" /\ inv[i].created /\ inv[i].status = 200
        /\ inv[j].pc = "done" /\ inv[j].created /\ inv[j].status = 500

\* C13: no call is retried: a /gcs-trigger request calls create_task at most
\* once and the queue gains at most one task per request; a /process-asset
\* request calls create_session at most once and run_async at most once; a
\* request in which a call failed has answered 500 and done nothing more.
C13_NoRetry ==
    /\ trigger_resp.calls <= 1
    /\ Len(tasks) <= trig_count
    /\ trigger_resp.exc # None =>
          /\ trigger_resp.response.status = 500
          /\ ~trigger_resp.succeeded
    /\ \A i \in Slots :
          /\ inv[i].create_session_calls <= 1
          /\ inv[i].run_async_calls <= 1
          /\ inv[i].raised =>
                /\ inv[i].pc = "done" /\ inv[i].status = 500
                /\ ~inv[i].created => inv[i].run_async_calls = 0
    /\ Cardinality(sessions) <= Cardinality({i \in Slots : inv[i].create_session_calls > 0})

\* The enqueue request called create_task once; one worker request failed
\* at create_session and went no further, another failed in its coordinator
\* run, and both answered 500.
C13_Witness ==
    /\ trigger_resp.calls = 1
    /\ \E i, j \in Slots :
          /\ inv[i].raised /\ ~inv[i].created /\ inv[i].status = 500
          /\ inv[i].create_session_calls = 1 /\ inv[i].run_async_calls = 0
          /\ inv[j].raised /\ inv[j].created /\ inv[j].status = 500
          /\ inv[j].create_session_calls = 1 /\ inv[j].run_async_calls = 1

\* C14: the lifecycle keeps its order: a 204 of the enqueue handler means
\* the task is in the queue; a worker request runs only for a task of the
\* queue; runner.run_async is called only with the session created and held
\* by the session service; a request whose create_session failed never calls
\* run_async; and a success response comes only after the coordinator run.
C14_LifecycleOrder ==
    /\ (trigger_resp.response # Null /\ trigger_resp.response.status = 204) =>
          /\ trigger_resp.succeeded
          /\ tasks # <<>> /\ tasks[Len(tasks)] = trigger_resp.submitted
    /\ \A i \in Slots :
          /\ inv[i].pc # "idle" =>
                inv[i].task \in DOMAIN tasks /\ inv[i].create_session_calls > 0
          /\ (inv[i].run_async_calls > 0 \/ inv[i].delegated) =>
                /\ inv[i].created
                /\ SessionKey(inv[i].session_id) \in sessions
          /\ (inv[i].pc = "done" /\ ~inv[i].created) =>
                /\ inv[i].run_async_calls = 0 /\ ~inv[i].delegated
                /\ inv[i].status = 500
          /\ inv[i].status = 200 =>
                inv[i].pc = "done" /\ inv[i].created /\ inv[i].delegated

\* One event went through the whole lifecycle, and another delivery of its
\* task stopped at create_session.
C14_Witness ==
    /\ trigger_resp.response = Response204
    /\ \E i, j \in Slots :
          /\ inv[i].status = 200 /\ inv[i].delegated /\ inv[i].task \in acked
          /\ inv[j].pc = "done" /\ ~inv[j].created

\* C16: a request whose coordinator run ended without a final-response
\* event, or whose first final-response event had neither content parts nor
\* an escalation, answers 200 with the body {status: "success", response:
\* "Agent did not produce a final response."}.
C16_SuccessWithoutFinalText ==
    (/\ worker_resp.slot # 0 /\ worker_resp.raised = None
     /\ \/ worker_resp.first_final = Null
        \/ /\ worker_resp.first_final # Null
           /\ ~HasParts(worker_resp.first_final[2])
           /\ ~Escalates(worker_resp.first_final[2])) =>
        /\ worker_resp.response.status = 200
        /\ worker_resp.response.body
              = [status |-> "success",
                 response |-> <<"Agent did not produce a final response.">>]
        /\ worker_resp.task \in acked

\* The run yielded an event that was not final, then ended.
C16_Witness ==
    /\ worker_resp.slot # 0 /\ worker_resp.raised = None
    /\ worker_resp.first_final = Null /\ worker_resp.consumed = 1
    /\ worker_resp.response.status = 200

----------------------------------------------------------------------------
(* Claims about add_artifact_from_gcs, checked under SpecAdapter *)

StartsWith(s, prefix) == Len(s) >= Len(prefix) /\ Take(s, Len(prefix)) = prefix

EndsWith(s, suffix) ==
    Len(s) >= Len(suffix) /\ Drop(s, Len(s) - Len(suffix)) = suffix

HasChar(s, c) == \E k \in DOMAIN s : s[k] = c

\* seg is the final path segment of uri: what follows its last "/".
IsFinalSegment(uri, seg) ==
    /\ ~HasChar(seg, "/")
    /\ EndsWith(uri, <<"/">> \o seg)

\* The URI is gs://<bucket>/<path>: the scheme prefix, then a "/" somewhere.
IsGsUri(uri) ==
    /\ StartsWith(uri, GS_PREFIX)
    /\ \E k \in (Len(GS_PREFIX) + 1) .. Len(uri) : uri[k] = "/"

\* The version the returned call saved.
SavedPart ==
    LET path == ArtifactPath(SessionKey(tool_call.session_id), tool_call.filename)
    IN artifacts[path][tool_call.version + 1]

\* C8 as stated: a URI that does not start with "gs://", or has no "/"
\* between bucket and object path, makes the call fail with nothing
\* downloaded and nothing saved.
C8_Original ==
    (tool_call.state = "returned" /\ ~IsGsUri(tool_call.uri)) =>
        /\ tool_call.raised # None
        /\ ~tool_call.downloaded
        /\ ~tool_call.saved

HasJsonExtension(seg) ==
    /\ EndsWith(seg, <<".", "j", "s", "o", "n">>)
    /\ \E k \in 1 .. (Len(seg) - 5) : seg[k] # "."

C10_BucketPathFilename ==
    (tool_call.state = "returned" /\ IsGsUri(tool_call.uri)) =>
        /\ tool_call.raised # "ValueError"
        /\ ~HasChar(tool_call.bucket_name, "/")
        /\ tool_call.uri
              = GS_PREFIX \o tool_call.bucket_name \o <<"/">> \o tool_call.blob_name
        /\ tool_call.saved =>
              /\ IsFinalSegment(tool_call.uri, tool_call.filename)
              /\ SavedPart.data = <<"bytes", tool_call.bucket_name, tool_call.blob_name>>
              /\ \E path \in DOMAIN artifacts : path[4] = tool_call.filename

\* The spec's example: gs://b/dir/name.pdf.
C10_Witness ==
    /\ tool_call.saved
    /\ tool_call.uri = GS_PREFIX \o <<"b", "/", "d", "i", "r", "/", "n", "a", "m", "e", ".", "p", "d", "f">>
    /\ tool_call.bucket_name = <<"b">>
    /\ tool_call.blob_name = <<"d", "i", "r", "/", "n", "a", "m", "e", ".", "p", "d", "f">>
    /\ tool_call.filename = <<"n", "a", "m", "e", ".", "p", "d", "f">>

----------------------------------------------------------------------------
(* Claims about the tools of two requests at once, checked under SpecTools *)

\* The lines of a text, split at its line breaks.
RECURSIVE Lines(_)
Lines(text) ==
    LET parts == Split1(text, "\n")
    IN IF Len(parts) = 1 THEN <<parts[1]>> ELSE <<parts[1]>> \o Lines(parts[2])

\* list_artifacts returned and the library call under it returned its list.
Listed == listing.state = "returned" /\ listing.outcome = "ok"

\* C11 as stated: for an empty artifact set list_artifacts returns exactly
\* the no-artifacts sentence, and for N filenames it returns a text of N
\* lines, each line a hyphen followed by one filename, every filename on a
\* line.
C11_Original ==
    Listed =>
        IF listing.available = <<>>
        THEN listing.result = <<"You have no saved artifacts.">>
        ELSE LET lines == Lines(listing.result)
             IN /\ Len(lines) = Len(listing.available)
                /\ \A k \in DOMAIN lines : lines[k][1] = "- "
                /\ \A k \in DOMAIN listing.available :
                     \E j \in DOMAIN lines : lines[j] = <<"- ">> \o listing.available[k]

\* C11: for an empty artifact set list_artifacts returns exactly the
\* no-artifacts sentence; for N filenames it returns N + 1 lines: the sentence
\* "Here are your available Python artifacts:" and then one line per
\* filename, a hyphen and a blank followed by the filename.
C11_HeaderThenFileLines ==
    Listed =>
        IF listing.available = <<>>
        THEN listing.result = <<"You have no saved artifacts.">>
        ELSE LET lines == Lines(listing.result)
             IN /\ Len(lines) = Len(listing.available) + 1
                /\ lines[1] = <<"Here are your available Python artifacts:">>
                /\ \A k \in DOMAIN listing.available :
                     lines[k + 1] = <<"- ">> \o listing.available[k]

\* A session with two filenames was listed.
C11_Witness == Listed /\ Len(listing.available) = 2

\* C12: list_artifacts never raises past its boundary: when the call to the
\* artifact service fails with a configuration error (ValueError) or with
\* any other exception, the tool returns an error sentence as its text.
C12_ErrorSentenceNotRaise ==
    listing.state = "returned" =>
        /\ listing.raised = None
        /\ listing.result # Null
        /\ listing.outcome = "ValueError" =>
              listing.result = <<"Error: Could not list Python artifacts.">>
        /\ listing.outcome = "Exception" =>
              listing.result
                 = <<"Error: An unexpected error occurred while listing Python artifacts.">>

\* The artifact service failed with an exception other than ValueError
\* while a session held an artifact.
C12_Witness ==
    /\ listing.state = "returned" /\ listing.outcome = "Exception"
    /\ artifacts # <<>>

\* C15 as stated: with two requests in flight, each with its own session id,
\* list_artifacts in one session never returns an artifact that
\* add_artifact_from_gcs saved in the other: every filename it lists was
\* saved by a tool call of its own session.
C15_Original ==
    Listed =>
        \A k \in DOMAIN listing.available :
            <<listing.session_id, listing.available[k]>> \in saved_in

====
